---- MODULE Spec2Model ----
(***************************************************************************)
(* A model of var/binary-size.py: main() parses its arguments, submits one *)
(* determineSizeAt task per revision to a ThreadPoolExecutor, waits for    *)
(* the pool to shut down and prints the converted sizes in the order of    *)
(* the list of futures.  Every external process (git, cargo, strip) is one *)
(* step of the task that runs it and may succeed or fail.                  *)
(***************************************************************************)
EXTENDS Integers, Sequences, FiniteSets, TLC

\* ---------------------------------------------------------------- bounds
\* The longest list of revisions given on the command line.
MaxRevs == 3
\* The most external steps (git, cargo, strip) that go wrong in one run, a
\* reference that names no commit not counted.
MaxFaults == 1
\* The largest byte count the unit conversion is applied to in SpecUnit.
MaxBytes == 4200

\* ------------------------------------------------------- the environment
\* Worker threads of the pool created by ThreadPoolExecutor().
MaxWorkers == 2

\* Names tempfile can give to a temporary directory.
Dirs == 1..(MaxWorkers + 1)

\* The place of the repository the script is run in (root, and the working
\* directory of the process).
Root == -1

\* The revision references a caller may pass, and what `git rev-parse
\* --verify <ref>^{commit}` prints for them in the repository the script runs
\* in: two of them name commits, "nope" names nothing.  A reference may be
\* given more than once, and then more than one task has the same commit.
NoCommit == "none"
Repo == [x \in {"v1.0", "HEAD", "nope"} |->
           CASE x = "v1.0" -> "c1"
             [] x = "HEAD" -> "c2"
             [] OTHER     -> NoCommit]
Revs == DOMAIN Repo

\* The size of the release binary cargo links at a commit, and what is left
\* of it after strip.
BuiltSize == [c \in {"c1", "c2"} |-> IF c = "c1" THEN 1536000 ELSE 1572864]
StrippedSize == [c \in {"c1", "c2"} |-> IF c = "c1" THEN 204800 ELSE 209715]

\* What follows -u/--unit on the command line in the runs of main (SpecUnit
\* goes through every unit of the table).
UnitArgs == {"kib", "gib", "KiB"}

\* ------------------------------------------------------------ UNITS, unit
UNITS == [u \in {"byte", "kib", "mib"} |->
            CASE u = "byte" -> 1
              [] u = "kib"  -> 1024
              [] u = "mib"  -> 1024 * 1024]

\* unit(string): the scale, or 0 for the ArgumentTypeError.
unitLenient(string) == IF string \in DOMAIN UNITS THEN UNITS[string] ELSE 1
unit(string) == IF string \in DOMAIN UNITS THEN UNITS[string] ELSE 0

\* round(x, 0) of Python 3 for x = b / scale: the nearest integer, a tie going
\* to the even one.  b / scale is exact in a double for the sizes of a file
\* and a scale that is a power of two.
roundDown(b_, scale) == b_ \div scale
round(b_, scale) ==
  LET q == b_ \div scale
      r == b_ % scale
  IN  IF 2 * r < scale THEN q
      ELSE IF 2 * r > scale THEN q + 1
      ELSE IF q % 2 = 0 THEN q ELSE q + 1

\* int(round(future.result() / ns.unit, 0))
Reported(b_, scale) == round(b_, scale)

\* ------------------------------------------------------------------ state
VARIABLES
  pc,        \* where main is
  unitArg,   \* the argument of --unit
  revs,      \* the positional arguments
  ns_unit,   \* ns.unit
  idx,       \* how many elements of ns.revs the for loop has taken
  rev,       \* the loop variable
  tasks,     \* the work items, in the order of submission
  futures,   \* the list `futures` (indices into tasks)
  queue,     \* the executor's work queue
  fs,        \* the temporary directories and what is in them
  fi,        \* how many elements of futures the second loop has taken
  output,    \* the lines printed
  faults,    \* how many external steps have gone wrong
  b, u, shown, \* SpecUnit only: a byte count, a unit and the value printed
  epc,       \* SpecEnv only: where main of extension_var_test.py is
  what,      \* the positional argument (namespace.what)
  environ,   \* os.environ: the variables that are set, and their values
  var,       \* the local variable var
  printed,   \* the lines it has printed
  status     \* what main returned or the process exited with (-1: neither yet)

vars == <<pc, unitArg, revs, ns_unit, idx, rev, tasks, futures, queue, fs, fi,
          output, faults, b, u, shown, epc, what, environ, var, printed,
          status>>
mainVars == <<pc, unitArg, revs, ns_unit, idx, rev, futures, fi, output>>
envVars == <<epc, what, environ, var, printed, status>>
unitVars == <<b, u, shown, envVars>>

\* A directory that does not exist, and one TemporaryDirectory just made.
\* by is the task whose TemporaryDirectory() made the directory.
NoDir == [stage |-> "absent", commit |-> NoCommit, artifact |-> FALSE,
          size |-> 0, by |-> 0]
EmptyDir(t) == [stage |-> "empty", commit |-> NoCommit, artifact |-> FALSE,
                size |-> 0, by |-> t]

\* The repository the script is run in: a work tree with the commit of HEAD
\* checked out and nothing built.
OriginRepo == [stage |-> "checkedout", commit |-> Repo["HEAD"],
               artifact |-> FALSE, size |-> 0, by |-> 0]
NoFiles == [d \in Dirs \cup {Root} |-> IF d = Root THEN OriginRepo ELSE NoDir]

\* The work item executor.submit creates for lambda r=rev: ...: r is bound
\* when the lambda is made.
\* steps lists the steps the task has run so far.
NewTask(r) == [r |-> r, pc |-> "queued", sha1 |-> NoCommit, cwd |-> 0,
               ncli |-> 0, exc |-> "none", ret |-> -1, steps |-> <<>>]

\* executor.submit puts the work item at the end of the work queue.
EnqueueIfIdle(q, t) == IF q = <<>> THEN Append(q, t) ELSE q
Enqueue(q, t) == Append(q, t)

\* futures += [f]
AddFutureFront(fs_, f) == <<f>> \o fs_
AddFuture(fs_, f) == Append(fs_, f)

SeqsUpTo(S, n) == UNION {[1..k -> S] : k \in 0..n}

Running == {t \in 1..Len(tasks) : tasks[t].pc \notin {"queued", "done"}}
AllDone == \A t \in 1..Len(tasks) : tasks[t].pc = "done"

Init ==
  /\ pc = "parse"
  /\ unitArg \in UnitArgs
  /\ revs \in SeqsUpTo(Revs, MaxRevs)
  /\ ns_unit = 0
  /\ idx = 0
  /\ rev = "none"
  /\ tasks = <<>>
  /\ futures = <<>>
  /\ queue = <<>>
  /\ fs = NoFiles
  /\ fi = 0
  /\ output = <<>>
  /\ faults = 0
  /\ b = 0 /\ u = "byte" /\ shown = -1
  /\ epc = "parse" /\ what = "binary" /\ environ = <<>> /\ var = ""
  /\ printed = <<>> /\ status = -1

\* ------------------------------------------------------------------- main
\* parser.parse_args(args): nargs="+" wants a revision and type=unit a known
\* unit; otherwise argparse prints the usage and exits with status 2.
ParseArgs ==
  /\ pc = "parse"
  /\ IF Len(revs) = 0 \/ unit(unitArg) = 0
       THEN pc' = "usage" /\ UNCHANGED ns_unit
       ELSE pc' = "root" /\ ns_unit' = unit(unitArg)
  /\ UNCHANGED <<unitArg, revs, idx, rev, tasks, futures, queue, fs, fi,
                 output, faults, unitVars>>

\* root = repoRoot(); futures = []; executor = ThreadPoolExecutor()
RepoRoot ==
  /\ pc = "root"
  /\ \/ pc' = "submit"
     \/ pc' = "raised"      \* git rev-parse --show-toplevel failed
  /\ UNCHANGED <<unitArg, revs, ns_unit, idx, rev, tasks, futures, queue, fs,
                 fi, output, faults, unitVars>>

\* executor.submit(fn) puts the work item on the executor's unbounded queue
\* and returns the future: it waits neither for a free worker thread nor for
\* an earlier work item.
SubmitWhenWorkerFree == Cardinality(Running) < MaxWorkers
SubmitReady == TRUE

\* One iteration of `for rev in ns.revs`: submit returns at once.
Submit ==
  /\ pc = "submit"
  /\ idx < Len(revs)
  /\ SubmitReady
  /\ idx' = idx + 1
  /\ rev' = revs[idx + 1]
  /\ tasks' = Append(tasks, NewTask(rev'))
  /\ queue' = Enqueue(queue, Len(tasks) + 1)
  /\ futures' = AddFuture(futures, Len(tasks) + 1)
  /\ UNCHANGED <<pc, unitArg, revs, ns_unit, fs, fi, output, faults, unitVars>>

\* The loop is over; executor.shutdown(wait=True) is called.
EndSubmit ==
  /\ pc = "submit"
  /\ idx = Len(revs)
  /\ pc' = "shutdown"
  /\ UNCHANGED <<unitArg, revs, ns_unit, idx, rev, tasks, futures, queue, fs,
                 fi, output, faults, unitVars>>

\* shutdown(wait=True) returns when every worker thread has ended, which is
\* when the queue is empty and no work item runs.
ShutdownNoWait == TRUE
ShutdownWait == AllDone
Shutdown ==
  /\ pc = "shutdown"
  /\ ShutdownWait
  /\ pc' = "print"
  /\ UNCHANGED <<unitArg, revs, ns_unit, idx, rev, tasks, futures, queue, fs,
                 fi, output, faults, unitVars>>

\* One iteration of `for future in futures`: future.result() waits for the
\* work item to finish and returns the size or raises what the task raised,
\* which ends main.
ResultNeverRaises(f) == FALSE
ResultRaisesUnresolvedOnly(f) == f.exc = "resolve"
ResultRaises(f) == f.exc # "none"
PrintResult ==
  /\ pc = "print"
  /\ fi < Len(futures)
  /\ tasks[futures[fi + 1]].pc = "done"
  /\ LET f == tasks[futures[fi + 1]]
     IN  IF ResultRaises(f)
           THEN pc' = "raised" /\ UNCHANGED <<fi, output>>
           ELSE /\ output' = Append(output, Reported(f.ret, ns_unit))
                /\ fi' = fi + 1
                /\ UNCHANGED pc
  /\ UNCHANGED <<unitArg, revs, ns_unit, idx, rev, tasks, futures, queue, fs,
                 faults, unitVars>>

\* return 0
Return ==
  /\ pc = "print"
  /\ fi = Len(futures)
  /\ pc' = "done"
  /\ UNCHANGED <<unitArg, revs, ns_unit, idx, rev, tasks, futures, queue, fs,
                 fi, output, faults, unitVars>>

\* exit(main(argv[1:])): the status the process ends with.  It is 0 after
\* return 0, 2 after argparse has reported an error and 1 after an exception
\* has left main (the interpreter prints the traceback); -1 stands for a
\* process that has not ended.
ExitStatus ==
  CASE pc = "done" -> 0
    [] pc = "usage" -> 2
    [] pc = "raised" -> 1
    [] OTHER -> -1

\* ---------------------------------------------------------------- workers
\* The task's fields after a change.
Upd(t, rec) == [tasks EXCEPT ![t] = rec]

\* The task after it has run a step.
Ran(t, step) == [tasks[t] EXCEPT !.steps = Append(@, step)]

\* A finished work item: its future holds the result or the exception, and
\* the locals of determineSizeAt are gone.
Finish(t, rec) ==
  tasks' = Upd(t, [rec EXCEPT !.pc = "done", !.cwd = 0, !.ncli = 0])

\* The statements of determineSizeAt in the order they are written, and the one
\* control passes to when a statement has returned: the next one, and after
\* the return statement the exit of the with block.
StepOrder == <<"resolve", "mkdtemp", "clone", "checkout", "build", "metadata",
               "strip", "stat">>
StepAfterWithoutCheckout(step) ==
  CASE step = "stat" -> "exit"
    [] step = "clone" -> "build"
    [] OTHER -> StepOrder[1 + CHOOSE n \in 1..Len(StepOrder) : StepOrder[n] = step]
StepAfter(step) ==
  IF step = StepOrder[Len(StepOrder)]
    THEN "exit"
    ELSE StepOrder[1 + CHOOSE n \in 1..Len(StepOrder) : StepOrder[n] = step]

\* A worker thread takes the next work item off the queue.
Start(t) ==
  /\ queue # <<>>
  /\ t = Head(queue)
  /\ Cardinality(Running) < MaxWorkers
  /\ queue' = Tail(queue)
  /\ tasks' = Upd(t, [tasks[t] EXCEPT !.pc = StepOrder[1]])
  /\ UNCHANGED <<mainVars, fs, faults, unitVars>>

\* resolveCommit(commit): what git rev-parse --verify prints, run in the
\* working directory of the process: for HEAD the commit checked out there,
\* for another reference the commit it names; check_output raises when git
\* exits with a status other than 0.
resolveCommit(commit) ==
  IF commit = "HEAD" THEN fs[Root].commit ELSE Repo[commit]
ResolveNeverRaises(commit) == FALSE
ResolveRaises(commit) == Repo[commit] = NoCommit

\* The revision the work item passes to determineSizeAt: lambda r=rev binds
\* r to the value rev has when the lambda is made, not to the loop variable.
LoopRev(t) == rev
BoundRev(t) == tasks[t].r

\* sha1 = resolveCommit(rev), the first statement of determineSizeAt: an
\* exception here leaves the function before the with block.
Resolve(t) ==
  /\ tasks[t].pc = "resolve"
  /\ IF ResolveRaises(BoundRev(t))
       THEN Finish(t, [Ran(t, "resolve") EXCEPT !.exc = "resolve"])
       ELSE tasks' = Upd(t, [Ran(t, "resolve") EXCEPT
                               !.sha1 = resolveCommit(BoundRev(t)),
                               !.pc = StepAfter("resolve")])
  /\ UNCHANGED <<mainVars, queue, fs, faults, unitVars>>

\* with TemporaryDirectory() as cwd: mkdtemp makes a directory under a name
\* that no existing directory has (the least such name stands for any).
mkdtempSameName(f) == 1
mkdtemp(f) == CHOOSE d \in Dirs : f[d].stage = "absent" /\
                 \A e \in Dirs : f[e].stage = "absent" => d <= e
MkDTemp(t) ==
  /\ tasks[t].pc = "mkdtemp"
  /\ LET cwd == mkdtemp(fs)
     IN  /\ fs' = [fs EXCEPT ![cwd] = EmptyDir(t)]
         /\ tasks' = Upd(t, [Ran(t, "mkdtemp") EXCEPT !.cwd = cwd,
                                                    !.pc = StepAfter("mkdtemp")])
  /\ UNCHANGED <<mainVars, queue, faults, unitVars>>

\* A step inside the with block raised: the block is left.
RaiseSwallowed(t, step) ==
  tasks' = Upd(t, [Ran(t, step) EXCEPT !.ret = 0, !.pc = "exit"])
Raise(t, step) ==
  tasks' = Upd(t, [Ran(t, step) EXCEPT !.exc = step, !.pc = "exit"])

\* An external process exits with a status other than 0 (check_call and
\* check_output raise CalledProcessError).
Fails(t, step) ==
  /\ faults < MaxFaults
  /\ faults' = faults + 1
  /\ Raise(t, step)

\* check_call(["git", "clone", root, cwd]): git reads the repository at root
\* and writes the clone into cwd.
Clone(t) ==
  /\ tasks[t].pc = "clone"
  /\ \/ /\ fs[Root].stage # "absent"
        /\ fs' = [fs EXCEPT ![tasks[t].cwd].stage = "cloned"]
        /\ tasks' = Upd(t, [Ran(t, "clone") EXCEPT !.pc = StepAfter("clone")])
        /\ UNCHANGED faults
     \/ Fails(t, "clone") /\ UNCHANGED fs
  /\ UNCHANGED <<mainVars, queue, unitVars>>

\* check_call(["git", "checkout", "--quiet", sha1], cwd=cwd): cwd=cwd makes
\* git run in the temporary directory.
CheckoutInProcessDir(t) == Root
CheckoutDir(t) == tasks[t].cwd
Checkout(t) ==
  /\ tasks[t].pc = "checkout"
  /\ \/ /\ fs' = [fs EXCEPT ![CheckoutDir(t)].stage = "checkedout",
                            ![CheckoutDir(t)].commit = tasks[t].sha1]
        /\ tasks' = Upd(t, [Ran(t, "checkout") EXCEPT !.pc = StepAfter("checkout")])
        /\ UNCHANGED faults
     \/ Fails(t, "checkout") /\ UNCHANGED fs
  /\ UNCHANGED <<mainVars, queue, unitVars>>

\* What cargo build leaves in a directory: the release binary of the commit
\* checked out there, or (present = FALSE) no file of the expected name.
Built(d, present) ==
  [d EXCEPT !.stage = "built", !.artifact = present,
            !.size = IF present /\ d.commit # NoCommit
                       THEN BuiltSize[d.commit] ELSE 0]

\* check_call(["cargo", "build", "--quiet", "--release"], cwd=cwd): cargo
\* runs in the temporary directory and builds what is checked out there.  A build
\* that exits with 0 and leaves no target/release/nitrocli is one of the
\* things that go wrong.
BuildInProcessDir(t) == Root
BuildDir(t) == tasks[t].cwd
Build(t) ==
  /\ tasks[t].pc = "build"
  /\ \/ /\ fs' = [fs EXCEPT ![BuildDir(t)] = Built(fs[BuildDir(t)], TRUE)]
        /\ tasks' = Upd(t, [Ran(t, "build") EXCEPT !.pc = StepAfter("build")])
        /\ UNCHANGED faults
     \/ /\ faults < MaxFaults
        /\ faults' = faults + 1
        /\ fs' = [fs EXCEPT ![BuildDir(t)] = Built(fs[BuildDir(t)], FALSE)]
        /\ tasks' = Upd(t, [Ran(t, "build") EXCEPT !.pc = StepAfter("build")])
     \/ Fails(t, "build") /\ UNCHANGED fs
  /\ UNCHANGED <<mainVars, queue, unitVars>>

\* nitrocliPath(cwd): cargo metadata, run in cwd, names the target directory
\* of the package in cwd; the path is <target_directory>/release/nitrocli.
\* A path is modelled by the temporary directory it lies in.
nitrocliPath(cwd) == cwd
Metadata(t) ==
  /\ tasks[t].pc = "metadata"
  /\ \/ /\ tasks' = Upd(t, [Ran(t, "metadata") EXCEPT
                           !.ncli = nitrocliPath(tasks[t].cwd),
                           !.pc = StepAfter("metadata")])
        /\ UNCHANGED faults
     \/ Fails(t, "metadata")
  /\ UNCHANGED <<mainVars, queue, fs, unitVars>>

\* What strip leaves of the file in a directory.
Stripped(d) ==
  [d EXCEPT !.stage = "stripped",
            !.size = IF d.commit # NoCommit THEN StrippedSize[d.commit] ELSE 0]

\* check_call(["strip", ncli]): strip exits with 1 for a file that is not
\* there (check_call raises), and may reject one that is.
StripIgnoresMissing(d) == FALSE
StripFindsNoFile(d) == ~d.artifact
Strip(t) ==
  /\ tasks[t].pc = "strip"
  /\ \/ /\ ~StripFindsNoFile(fs[tasks[t].ncli])
        /\ fs' = [fs EXCEPT ![tasks[t].ncli] = Stripped(fs[tasks[t].ncli])]
        /\ tasks' = Upd(t, [Ran(t, "strip") EXCEPT !.pc = StepAfter("strip")])
        /\ UNCHANGED faults
     \/ /\ ~StripFindsNoFile(fs[tasks[t].ncli])
        /\ Fails(t, "strip")
        /\ UNCHANGED fs
     \/ /\ StripFindsNoFile(fs[tasks[t].ncli])
        /\ Raise(t, "strip")
        /\ UNCHANGED <<fs, faults>>
  /\ UNCHANGED <<mainVars, queue, unitVars>>

\* return fileSize(ncli): stat(path).st_size, or the FileNotFoundError.
fileSize(path) == fs[path].size
Stat(t) ==
  /\ tasks[t].pc = "stat"
  /\ IF fs[tasks[t].ncli].artifact
       THEN tasks' = Upd(t, [Ran(t, "stat") EXCEPT !.ret = fileSize(tasks[t].ncli),
                                             !.pc = StepAfter("stat")])
       ELSE Raise(t, "stat")
  /\ UNCHANGED <<mainVars, queue, fs, faults, unitVars>>

\* TemporaryDirectory.__exit__: the directory is removed, then the value is
\* returned or the exception goes on to the future.
CleanupNothing(f, cwd) == f
Cleanup(f, cwd) == [f EXCEPT ![cwd] = NoDir]
Exit(t) ==
  /\ tasks[t].pc = "exit"
  /\ fs' = Cleanup(fs, tasks[t].cwd)
  /\ Finish(t, Ran(t, "exit"))
  /\ UNCHANGED <<mainVars, queue, faults, unitVars>>

Worker(t) ==
  \/ Start(t) \/ Resolve(t) \/ MkDTemp(t) \/ Clone(t) \/ Checkout(t)
  \/ Build(t) \/ Metadata(t) \/ Strip(t) \/ Stat(t) \/ Exit(t)

Main == ParseArgs \/ RepoRoot \/ Submit \/ EndSubmit \/ Shutdown
          \/ PrintResult \/ Return

Next == Main \/ \E t \in 1..Len(tasks) : Worker(t)

Spec == Init /\ [][Next]_vars

\* Every external step ends and a thread that can run does: main and each
\* worker are threads of their own.
FairSpec ==
  /\ Spec
  /\ WF_vars(Main)
  /\ \A t \in 1..MaxRevs : WF_vars(t <= Len(tasks) /\ Worker(t))

\* --------------------------------------------------- the unit conversion
\* The byte counts the conversion is tried on: the small ones, and the ones
\* around the multiples of half a MiB.
ByteCounts == (0..MaxBytes) \cup {123456, 204800, 209715}
                \cup {k * 524288 + e : k \in 1..4, e \in {-1, 0, 1}}

InitUnit ==
  /\ pc = "parse" /\ unitArg = "kib" /\ revs = <<>> /\ ns_unit = 0 /\ idx = 0
  /\ rev = "none" /\ tasks = <<>> /\ futures = <<>> /\ queue = <<>>
  /\ fs = NoFiles /\ fi = 0 /\ output = <<>> /\ faults = 0
  /\ b \in ByteCounts
  /\ u \in DOMAIN UNITS
  /\ shown = -1
  /\ epc = "parse" /\ what = "binary" /\ environ = <<>> /\ var = ""
  /\ printed = <<>> /\ status = -1

\* print(int(round(b / unit(u), 0)))
Convert ==
  /\ shown = -1
  /\ shown' = Reported(b, unit(u))
  /\ UNCHANGED <<mainVars, tasks, queue, fs, faults, b, u, envVars>>

NextUnit == Convert

SpecUnit == InitUnit /\ [][NextUnit]_vars

\* ------------------------------------- tests/extension_var_test.py
\* class Action(Enum): the members by name, each with its value.
Action == [BINARY |-> "binary", MODEL |-> "model", NO_CACHE |-> "no-cache",
           SERIAL_NUMBERS |-> "serial-numbers", USB_PATH |-> "usb-path",
           VERBOSITY |-> "verbosity"]

\* Action.all(): the values of all members.
all == {Action[k] : k \in DOMAIN Action}

\* options = {v.value: k for k, v in Action.__members__.items()}: from the
\* value of a member to its name.
optionsByValue == [v \in all |-> v]
options == [v \in all |-> CHOOSE k \in DOMAIN Action : Action[k] = v]

\* f"NITROCLI_{var}": a name is the pair of the prefix and what follows it.
EnvName(v) == <<"NITROCLI_", v>>

\* What the helper may be called with: an action, the name of a member
\* instead of its value, or something else.
WhatArgs == all \cup {"NO_CACHE", "status"}
\* The variables the environment may hold, and the values they may have.
EnvNames == {EnvName(k) : k \in DOMAIN Action \cup {"no-cache"}}
EnvValues == {"", "1"}

InitEnv ==
  /\ pc = "parse" /\ unitArg = "kib" /\ revs = <<>> /\ ns_unit = 0 /\ idx = 0
  /\ rev = "none" /\ tasks = <<>> /\ futures = <<>> /\ queue = <<>>
  /\ fs = NoFiles /\ fi = 0 /\ output = <<>> /\ faults = 0
  /\ b = 0 /\ u = "byte" /\ shown = -1
  /\ epc = "parse"
  /\ what \in WhatArgs
  /\ environ \in UNION {[K -> EnvValues] : K \in SUBSET EnvNames}
  /\ var = ""
  /\ printed = <<>>
  /\ status = -1

\* namespace = parser.parse_args(args[1:]): choices=Action.all() makes
\* argparse report any other word and exit with status 2.
EnvParseArgs ==
  /\ epc = "parse"
  /\ IF what \in all
       THEN epc' = "try" /\ UNCHANGED status
       ELSE epc' = "usage" /\ status' = 2
  /\ UNCHANGED <<mainVars, tasks, queue, fs, faults, b, u, shown, what,
                 environ, var, printed>>

\* The try block and what follows it: a KeyError of either lookup makes main
\* return 1 with nothing printed; otherwise the value is printed and main
\* returns 0.
Echo ==
  /\ epc = "try"
  /\ IF what \notin DOMAIN options
       THEN status' = 1 /\ UNCHANGED <<var, printed>>
       ELSE /\ var' = options[what]
            /\ IF EnvName(var') \in DOMAIN environ
                 THEN /\ printed' = Append(printed, environ[EnvName(var')])
                      /\ status' = 0
                 ELSE status' = 1 /\ UNCHANGED printed
  /\ epc' = "done"
  /\ UNCHANGED <<mainVars, tasks, queue, fs, faults, b, u, shown, what,
                 environ>>

NextEnv == EnvParseArgs \/ Echo

SpecEnv == InitEnv /\ [][NextEnv]_vars

\* ================================================================= claims
Tasks == 1..Len(tasks)
Failed(t) == tasks[t].pc = "done" /\ tasks[t].exc # "none"
Succeeded(t) == tasks[t].pc = "done" /\ tasks[t].exc = "none"
\* main has gone past executor.shutdown.
PastShutdown == pc \in {"print", "done"} \/ (pc = "raised" /\ tasks # <<>>)
\* The steps of a task that ran to its return statement.
AllSteps == <<"resolve", "mkdtemp", "clone", "checkout", "build", "metadata",
              "strip", "stat", "exit">>

\* C1: when every task succeeded, main prints one line per revision, and line
\* i is the converted size that the task submitted for revs[i] measured,
\* whatever the order in which the tasks finished; main ends short of that
\* only when a task failed.
C1_OutputInRequestOrder ==
  /\ \A i \in 1..Len(output) :
       /\ i <= Len(tasks)
       /\ tasks[i].r = revs[i]
       /\ Succeeded(i)
       /\ tasks[i].ret = StrippedSize[Repo[revs[i]]]
       /\ output[i] = Reported(tasks[i].ret, ns_unit)
  /\ pc = "done" => Len(output) = Len(revs)
  /\ (pc = "raised" /\ tasks # <<>>) => \E t \in Tasks : Failed(t)

\* Two revisions of different sizes, printed in the order of the request.
C1_Witness ==
  /\ pc = "done"
  /\ Len(revs) = MaxRevs
  /\ revs[1] = "HEAD" /\ revs[2] = "v1.0"
  /\ output[1] = 205 /\ output[2] = 200

\* C2: no line is printed before every submitted task has finished, and a
\* task is never cut short by another one's failure: each has run all the
\* steps up to its return or up to the step of its own that raised.
C2_AllFinishedBeforeOutput ==
  (Len(output) > 0 \/ PastShutdown) =>
    /\ Len(tasks) = Len(revs)
    /\ \A t \in Tasks :
         /\ tasks[t].pc = "done"
         /\ tasks[t].exc = "none" => tasks[t].steps = AllSteps /\ tasks[t].ret >= 0
         /\ tasks[t].exc # "none" =>
              \E n \in 1..8 :
                /\ AllSteps[n] = tasks[t].exc
                /\ tasks[t].steps = SubSeq(AllSteps, 1, n) \o
                                      (IF n = 1 THEN <<>> ELSE <<"exit">>)

\* A line is out, and one task failed while another ran to its end.
C2_Witness ==
  /\ Len(output) > 0
  /\ \E s, t \in Tasks : Failed(s) /\ tasks[s].exc = "build" /\ Succeeded(t)

\* C3: a finished task has left no temporary directory behind, whichever
\* step it failed at, and once all tasks have finished none exists.
C3_NoWorkspaceLeft ==
  /\ \A t \in Tasks : tasks[t].pc = "done" => \A d \in Dirs : fs[d].by # t
  /\ (AllDone /\ queue = <<>>) => \A d \in Dirs : fs[d] = NoDir

\* All have finished: one after strip raised in its directory, one with a size.
C3_Witness ==
  /\ AllDone /\ Len(tasks) = MaxRevs
  /\ \E s, t \in Tasks :
       /\ Failed(s) /\ tasks[s].exc = "strip" /\ tasks[s].steps[2] = "mkdtemp"
       /\ Succeeded(t)
  /\ \A d \in Dirs : fs[d] = NoDir

\* The state of its directory that the steps of a task have left behind them.
StageAt(t) ==
  CASE tasks[t].pc = "clone" -> {"empty"}
    [] tasks[t].pc = "checkout" -> {"cloned"}
    [] tasks[t].pc = "build" -> {"checkedout"}
    [] tasks[t].pc \in {"metadata", "strip"} -> {"built"}
    [] tasks[t].pc = "stat" -> {"stripped"}
    [] OTHER -> {"empty", "cloned", "checkedout", "built", "stripped"}

Unresolvable == {i \in 1..Len(revs) : Repo[revs[i]] = NoCommit}

\* C5: when revisions fail, the sequence of results the orchestrator hands to
\* the reporting loop (the list of futures) still has one slot per revision,
\* in the order of the request; the slot of a failed revision holds its
\* exception instead of a size, and the other slots hold their sizes.
C5_CompleteResultSequence ==
  PastShutdown =>
    /\ Len(futures) = Len(revs)
    /\ \A i \in 1..Len(revs) :
         LET f == tasks[futures[i]]
         IN  /\ f.r = revs[i]
             /\ f.pc = "done"
             /\ f.exc # "none" <=> f.ret = -1
             /\ f.exc = "none" => f.ret = StrippedSize[Repo[revs[i]]]
             /\ i \in Unresolvable => f.exc = "resolve"
    /\ faults > 0 =>
         Cardinality({t \in Tasks : Failed(t)}) > Cardinality(Unresolvable)

\* Three slots: an unresolvable reference, a failed build, and a size.
C5_Witness ==
  /\ PastShutdown
  /\ Len(futures) = MaxRevs
  /\ \E i, j, k \in 1..Len(futures) :
       /\ tasks[futures[i]].exc = "resolve"
       /\ tasks[futures[j]].exc = "build"
       /\ tasks[futures[k]].ret = 209715

\* main has ended after it submitted tasks.
Ended == pc = "done" \/ (pc = "raised" /\ tasks # <<>>)

\* C6 as stated: whenever one revision of the request failed and another one
\* succeeded, the size of the one that succeeded is among the lines printed.
C6_SuccessAlwaysPrinted ==
  Ended =>
    \A i \in Tasks : (Succeeded(i) /\ \E j \in Tasks : Failed(j)) =>
      \E k \in 1..Len(output) : output[k] = Reported(tasks[i].ret, ns_unit)

\* C6, amended: when one revision of the request failed and another one
\* succeeded, the task of the one that succeeded has measured the right size,
\* and main has printed it exactly if no failed revision comes before it in
\* the request.
C6_SuccessPrintedUnlessAfterFailure ==
  Ended =>
    \A i \in Tasks : Succeeded(i) =>
      /\ tasks[i].ret = StrippedSize[Repo[revs[i]]]
      /\ (\A j \in 1..(i - 1) : Succeeded(j)) =>
           /\ Len(output) >= i
           /\ output[i] = Reported(tasks[i].ret, ns_unit)
      /\ (\E j \in 1..(i - 1) : Failed(j)) => Len(output) < i

\* A size printed before the failure, and one measured after it and not
\* printed.
C6_Witness ==
  /\ pc = "raised"
  /\ Len(tasks) = MaxRevs
  /\ Succeeded(1) /\ Failed(2) /\ Succeeded(3)
  /\ output = <<Reported(tasks[1].ret, ns_unit)>>
  /\ tasks[3].ret = StrippedSize[Repo[revs[3]]]

\* C7: a task resolves its revision once, as its first step and before it
\* has a directory, and a task whose reference does not resolve runs no
\* other step and never has a directory.
C7_ResolveOnceFirst ==
  \A t \in Tasks :
    LET st == tasks[t].steps
    IN  /\ Cardinality({n \in 1..Len(st) : st[n] = "resolve"}) <= 1
        /\ st # <<>> => st[1] = "resolve"
        /\ (tasks[t].cwd # 0 \/ \E d \in Dirs : fs[d].by = t) =>
             /\ st # <<>>
             /\ tasks[t].sha1 = Repo[tasks[t].r]
             /\ tasks[t].sha1 # NoCommit
        /\ Repo[tasks[t].r] = NoCommit =>
             /\ Len(st) <= 1
             /\ tasks[t].cwd = 0
             /\ \A d \in Dirs : fs[d].by # t

\* One task has ended at its resolution while another one builds.
C7_Witness ==
  \E s, t \in Tasks :
    /\ Failed(s) /\ tasks[s].steps = <<"resolve">>
    /\ tasks[t].pc = "build" /\ tasks[t].steps[1] = "resolve"

\* C8: with a unit that is none of byte, kib, mib, main ends in parse_args:
\* it does not look for the repository, submits no task, no step of a task
\* runs and nothing is printed.
C8_InvalidUnitFailsFirst ==
  unitArg \notin {"byte", "kib", "mib"} =>
    /\ pc \in {"parse", "usage"}
    /\ idx = 0 /\ tasks = <<>> /\ futures = <<>> /\ queue = <<>>
    /\ output = <<>>
    /\ \A d \in Dirs : fs[d] = NoDir

\* argparse has ended the run for the unit, revisions were given.
C8_Witness ==
  /\ pc = "usage"
  /\ unitArg = "KiB"
  /\ Len(revs) = MaxRevs

\* C9: one task is submitted per revision and none is lost (each is in the
\* queue, running or finished), also with more revisions than workers; and
\* with fair scheduling every submitted task finishes and main ends.
C9_EveryTaskRuns ==
  /\ [](pc \in {"shutdown", "print", "done"} =>
          /\ Len(tasks) = Len(revs)
          /\ \A i \in Tasks : tasks[i].r = revs[i])
  /\ [](\A t \in Tasks :
          tasks[t].pc = "queued" <=> \E n \in 1..Len(queue) : queue[n] = t)
  /\ \A t \in 1..MaxRevs :
       (t <= Len(tasks)) ~> (t <= Len(tasks) /\ tasks[t].pc = "done")
  /\ <>(pc \in {"usage", "raised", "done"})

\* More tasks than workers, all finished, and main has returned.
C9_Witness ==
  /\ pc = "done"
  /\ Len(tasks) > MaxWorkers
  /\ AllDone

\* C10: the value printed for b bytes in a unit is an integer nearest to b
\* divided by the unit's scale (1, 1024, 1048576): b itself in bytes, and
\* 200 and 205 for 204800 and 209715 bytes in kib.
C10_RoundedToNearest ==
  shown # -1 =>
    LET sc == CASE u = "byte" -> 1 [] u = "kib" -> 1024 [] u = "mib" -> 1048576
        diff == shown * sc - b
    IN  /\ 2 * (IF diff < 0 THEN -diff ELSE diff) <= sc
        /\ u = "byte" => shown = b
        /\ (u = "kib" /\ b = 204800) => shown = 200
        /\ (u = "kib" /\ b = 209715) => shown = 205

\* 209715 bytes have been printed in kib.
C10_Witness == u = "kib" /\ b = 209715 /\ shown = 205

\* C11: no step of a task changes the repository the script is run in:
\* resolution and clone read it, every other step works in the temporary
\* directory of its task, so the repository is in every state as it was at
\* the start.
C11_OriginUnchanged ==
  /\ fs[Root] = OriginRepo
  /\ \A t \in Tasks : tasks[t].cwd # Root /\ tasks[t].ncli # Root

\* Every task has finished, one of them with a size, and the repository is
\* as it was.
C11_Witness ==
  /\ AllDone /\ Len(tasks) = MaxRevs
  /\ \E t \in Tasks : Succeeded(t) /\ tasks[t].steps = AllSteps
  /\ fs[Root] = OriginRepo

\* C12: the process ends with status 0 exactly when every requested revision
\* has been measured and printed; when a revision could not be resolved or
\* built it ends with a status other than 0 (the traceback of the exception
\* that left main).
C12_ExitStatus ==
  /\ ExitStatus = 0 =>
       /\ Len(tasks) = Len(revs) /\ Len(revs) > 0
       /\ \A t \in Tasks : Succeeded(t)
       /\ Len(output) = Len(revs)
  /\ (Ended /\ \A t \in Tasks : Succeeded(t)) => ExitStatus = 0
  /\ (Ended /\ \E t \in Tasks : Failed(t)) => ExitStatus = 1
  /\ (AllDone /\ \E t \in Tasks : Failed(t)) => ExitStatus # 0

\* The process has ended with status 1: one reference did not resolve and
\* one build failed.
C12_Witness ==
  /\ ExitStatus = 1
  /\ \E t \in Tasks : Failed(t) /\ tasks[t].exc = "build"
  /\ \E t \in Tasks : Failed(t) /\ tasks[t].exc = "resolve"

\* A task whose build exited with 0 and left no binary at the path that
\* cargo metadata names, and which has left the with block by an exception.
ArtifactMissed(t) ==
  /\ tasks[t].pc = "exit"
  /\ tasks[t].ncli # 0
  /\ fs[tasks[t].ncli].stage \in {"built", "stripped"}
  /\ ~fs[tasks[t].ncli].artifact

\* C13 as stated: a task whose build succeeded without leaving the binary
\* fails with the error of the stat step.
C13_MissingArtifactFailsAtStat ==
  \A t \in Tasks : ArtifactMissed(t) => tasks[t].exc = "stat"

\* C13, amended: a task whose build succeeded without leaving the binary
\* fails at the strip step, which comes before stat and exits with an error
\* for a file that is not there; stat is not reached, the task has no size
\* and nothing is printed for its revision.
C13_MissingArtifactFailsAtStrip ==
  /\ \A t \in Tasks :
       /\ ArtifactMissed(t) =>
            /\ tasks[t].exc = "strip"
            /\ tasks[t].ret = -1
            /\ \A n \in 1..Len(tasks[t].steps) : tasks[t].steps[n] # "stat"
       /\ tasks[t].pc = "stat" => fs[tasks[t].ncli].artifact
       /\ tasks[t].exc # "stat"
       /\ tasks[t].exc # "none" => tasks[t].ret = -1 /\ Len(output) < t
       /\ tasks[t].ret # -1 => tasks[t].ret > 0
  /\ \A i \in 1..Len(output) : output[i] > 0

\* strip has just failed on the path of a build that left no binary.
C13_Witness ==
  \E t \in Tasks :
    /\ ArtifactMissed(t)
    /\ tasks[t].exc = "strip"
    /\ tasks[t].steps = <<"resolve", "mkdtemp", "clone", "checkout", "build",
                          "metadata", "strip">>

\* C14: the same reference resolves to the same commit every time: two tasks
\* of one request that have resolved the same reference, at whatever times,
\* have the same commit (the one the reference names in the repository), or
\* have both failed to resolve it.
C14_ResolutionDeterministic ==
  \A t \in Tasks : \A s \in 1..t :
    (revs[s] = revs[t] /\ tasks[s].steps # <<>> /\ tasks[t].steps # <<>>) =>
      /\ tasks[s].sha1 = tasks[t].sha1
      /\ tasks[s].sha1 = Repo[revs[s]]
      /\ tasks[s].exc = "resolve" <=> tasks[t].exc = "resolve"

\* The first task has built and measured HEAD, another commit has been
\* checked out and built in between, and the third task has just resolved
\* HEAD to the same commit.
C14_Witness ==
  /\ Len(tasks) = MaxRevs
  /\ revs[1] = "HEAD" /\ revs[2] = "v1.0" /\ revs[MaxRevs] = "HEAD"
  /\ Succeeded(1) /\ Succeeded(2)
  /\ tasks[MaxRevs].pc = "mkdtemp"
  /\ tasks[MaxRevs].sha1 = tasks[1].sha1

\* The first n steps of st are the first n of the order, with none left out.
InOrder(st, n) ==
  /\ n <= Len(AllSteps)
  /\ \A j \in 1..n : st[j] = AllSteps[j]

\* C15: a task runs its steps in the order resolve, mkdtemp, clone, checkout,
\* build, metadata, strip, stat: what it has run so far is always a prefix of
\* that order with nothing left out, the step it is at is the next of the
\* order, and once a step has failed it runs nothing more than the exit of the
\* with block and ends with that step's failure and without a size.
C15_StepsInOrder ==
  \A t \in Tasks :
    IF tasks[t].exc = "none"
      THEN /\ InOrder(tasks[t].steps, Len(tasks[t].steps))
           /\ tasks[t].pc = "queued" => tasks[t].steps = <<>>
           /\ tasks[t].pc \notin {"queued", "done"} =>
                /\ Len(tasks[t].steps) < Len(AllSteps)
                /\ tasks[t].pc = AllSteps[Len(tasks[t].steps) + 1]
           /\ tasks[t].pc = "done" =>
                tasks[t].steps = AllSteps /\ tasks[t].ret # -1
           /\ tasks[t].ret # -1 => Len(tasks[t].steps) >= 8
      ELSE /\ tasks[t].ret = -1
           /\ tasks[t].pc \in {"exit", "done"}
           /\ tasks[t].pc = "exit" =>
                /\ Len(tasks[t].steps) \in 2..8
                /\ InOrder(tasks[t].steps, Len(tasks[t].steps))
                /\ tasks[t].steps[Len(tasks[t].steps)] = tasks[t].exc
           /\ (tasks[t].pc = "done" /\ tasks[t].exc = "resolve") =>
                tasks[t].steps = <<"resolve">>
           /\ (tasks[t].pc = "done" /\ tasks[t].exc # "resolve") =>
                /\ Len(tasks[t].steps) \in 3..9
                /\ InOrder(tasks[t].steps, Len(tasks[t].steps) - 1)
                /\ tasks[t].steps[Len(tasks[t].steps) - 1] = tasks[t].exc
                /\ tasks[t].steps[Len(tasks[t].steps)] = "exit"

\* One task has failed at its checkout and has released its workspace, while
\* another has run every step up to the stat.
C15_Witness ==
  \E s, t \in Tasks :
    /\ Failed(s)
    /\ tasks[s].steps = <<"resolve", "mkdtemp", "clone", "checkout", "exit">>
    /\ tasks[t].pc = "stat"
    /\ Len(tasks[t].steps) = 7

\* C16: submission never waits on a task: while revisions are left main can
\* always submit the next one, whatever the tasks submitted so far are doing,
\* so main gets to the shutdown with all N tasks submitted even when none of
\* them has finished or ever does.
C16_SubmissionNeverWaits ==
  /\ (pc = "submit" /\ idx < Len(revs)) => ENABLED Submit
  /\ (pc = "submit" /\ idx = Len(revs)) => ENABLED EndSubmit
  /\ pc = "submit" => Len(tasks) = idx
  /\ pc = "shutdown" => Len(tasks) = Len(revs) /\ idx = Len(revs)

\* Every revision is submitted while the first two tasks sit in their
\* builds and the last still waits for a worker: none has finished.
C16_Witness ==
  /\ pc = "shutdown"
  /\ Len(tasks) = MaxRevs
  /\ tasks[1].pc = "build" /\ tasks[2].pc = "build"
  /\ tasks[MaxRevs].pc = "queued"
  /\ \A t \in Tasks : tasks[t].pc # "done"

\* The position of the first revision whose task failed, or one past the
\* last task when none failed.
FirstFailed ==
  IF \E t \in Tasks : Failed(t)
    THEN CHOOSE t \in Tasks : Failed(t) /\ \A s \in 1..(t - 1) : ~Failed(s)
    ELSE Len(tasks) + 1

\* C17: the lines main prints are the sizes of the revisions before the first
\* one whose task failed, in the order of the request: no line is ever printed
\* for the failed revision or for one after it, and main ends with exactly
\* those lines, by the failure when there is one and by its return otherwise.
C17_PrintsPrefixBeforeFirstFailure ==
  /\ \A i \in 1..Len(output) :
       /\ i < FirstFailed
       /\ output[i] = Reported(StrippedSize[Repo[revs[i]]], ns_unit)
  /\ (pc = "raised" /\ tasks # <<>>) =>
       /\ AllDone
       /\ FirstFailed <= Len(tasks)
       /\ Len(output) = FirstFailed - 1
  /\ pc = "done" =>
       /\ FirstFailed = Len(revs) + 1
       /\ Len(output) = Len(revs)

\* The first revision failed in its build and the two after it were
\* measured: main has ended by the failure without a line.
C17_Witness ==
  /\ pc = "raised"
  /\ Len(tasks) = MaxRevs
  /\ Failed(1) /\ tasks[1].exc = "build"
  /\ \A t \in 2..MaxRevs : Succeeded(t) /\ tasks[t].ret > 0
  /\ output = <<>>

\* C18: the revision a task works on is the one of the loop iteration that
\* submitted it, however far the loop has gone on when the task starts: task i
\* is the only task for position i, it resolves revs[i] (or fails to), checks
\* out and builds the commit of revs[i] and returns the size of that commit.
C18_RevisionBoundAtSubmission ==
  /\ Len(tasks) = idx /\ idx <= Len(revs)
  /\ Len(futures) = Len(tasks)
  /\ \A i \in 1..Len(futures) : futures[i] = i
  /\ \A t \in Tasks :
       /\ tasks[t].steps # <<>> =>
            /\ tasks[t].exc = "resolve" <=> Repo[revs[t]] = NoCommit
            /\ tasks[t].exc # "resolve" =>
                 tasks[t].sha1 # NoCommit /\ tasks[t].sha1 = Repo[revs[t]]
       /\ (tasks[t].cwd # 0 /\ fs[tasks[t].cwd].stage \in
                                 {"checkedout", "built", "stripped"}) =>
            fs[tasks[t].cwd].commit = Repo[revs[t]]
       /\ Succeeded(t) => tasks[t].ret = StrippedSize[Repo[revs[t]]]

\* The loop has ended with its variable at the last revision, and the first
\* task, started after that, has resolved the first revision, which names
\* another commit.
C18_Witness ==
  /\ pc = "shutdown"
  /\ Len(tasks) = MaxRevs
  /\ rev = revs[MaxRevs]
  /\ Repo[rev] # Repo[revs[1]]
  /\ tasks[MaxRevs].pc = "queued"
  /\ tasks[1].steps = <<"resolve">>
  /\ tasks[1].sha1 = Repo[revs[1]]

\* The environment variable the helper is to echo for each action name.
EchoedVariable ==
  CASE what = "binary" -> <<"NITROCLI_", "BINARY">>
    [] what = "model" -> <<"NITROCLI_", "MODEL">>
    [] what = "no-cache" -> <<"NITROCLI_", "NO_CACHE">>
    [] what = "serial-numbers" -> <<"NITROCLI_", "SERIAL_NUMBERS">>
    [] what = "usb-path" -> <<"NITROCLI_", "USB_PATH">>
    [] what = "verbosity" -> <<"NITROCLI_", "VERBOSITY">>

\* C19: called with one of the action names binary, model, no-cache,
\* serial-numbers, usb-path, verbosity, the helper prints the value of the
\* environment variable NITROCLI_<MEMBER NAME> and returns 0 when that variable
\* is set, and prints nothing and returns 1 when it is not; it prints nothing
\* before that, and every one of these names is accepted.
C19_EchoesEnvironmentVariable ==
  what \in {"binary", "model", "no-cache", "serial-numbers", "usb-path",
            "verbosity"} =>
    /\ epc # "usage"
    /\ epc # "done" => printed = <<>> /\ status = -1
    /\ epc = "done" =>
         IF EchoedVariable \in DOMAIN environ
           THEN printed = <<environ[EchoedVariable]>> /\ status = 0
           ELSE printed = <<>> /\ status = 1

\* no-cache has been asked for with NITROCLI_NO_CACHE set to 1 and
\* NITROCLI_BINARY to something else: the helper has printed 1 and returned 0.
C19_Witness ==
  /\ epc = "done"
  /\ what = "no-cache"
  /\ DOMAIN environ = {<<"NITROCLI_", "NO_CACHE">>, <<"NITROCLI_", "BINARY">>}
  /\ environ[<<"NITROCLI_", "NO_CACHE">>] = "1"
  /\ environ[<<"NITROCLI_", "BINARY">>] = ""
  /\ printed = <<"1">>
  /\ status = 0

====
